---- MODULE Spec2Model ----
(***************************************************************************)
(* Model of src/src/auto-turret-tracker.py: the pan-tilt tracker.          *)
(*                                                                         *)
(* Units.  Angles are fixed-point, UNIT = 20 steps per degree, so that the *)
(* proportional step err * GAIN (GAIN = 0.05 degree per pixel) is exactly  *)
(* err steps.  Confidences are percentages.  Raw detector coordinates are  *)
(* per-mille of the frame and are converted to pixels as the code does     *)
(* (multiply by the frame size, truncate).  Times are hundredths of a      *)
(* second.                                                                 *)
(*                                                                         *)
(* Threads.  The main thread runs the module-level startup code, app.run   *)
(* and the finally block.  Every /video_feed request runs its own          *)
(* gen_frames() generator in a request thread; c ranges over them.  Every  *)
(* /api/status request runs api_status in another request thread.  All of  *)
(* them share the module globals without any lock.  A thread switch can    *)
(* happen between statements: every statement that writes pan or tilt and  *)
(* every set_angle call is a step of its own, and so is each load of       *)
(* api_status; runs of statements that touch other globals are one step    *)
(* where the action's comment gives a range of lines.                      *)
(*                                                                         *)
(* Clock.  time.time() is the variable now.  It advances by Tick, in steps *)
(* of TICK, or by Elapse, to the readings of a finer clock, so that the    *)
(* differences the code compares (below, at and above FACE_HOLD_SEC and    *)
(* LOST_TIMEOUT) all occur, also between two statements of one iteration.  *)
(* sleep() calls only let time pass; they change no state of their own.    *)
(*                                                                         *)
(* Specifications.  Spec: one stream client that reads for as long as it   *)
(* likes, within one reading of the clock; FairSpec adds that its request  *)
(* thread runs.  SpecScene: one stream client, a short session, many kinds *)
(* of detector output.  SpecTimed: one stream client, a short session, the *)
(* finer clock.  SpecConc: two stream clients at once.  SpecServe: the     *)
(* life of the process from startup to exit with a stream client, a status *)
(* client and the clock; FairServe adds that runnable threads run.         *)
(***************************************************************************)
EXTENDS Integers, Sequences, FiniteSets, TLC

\* ---- CONFIG (lines 21-60) ------------------------------------------------
UNIT == 20
Deg(d) == d * UNIT

PAN_CH == 0
TILT_CH == 1
PAN_MIN == Deg(20)
PAN_MAX == Deg(160)
TILT_MIN == Deg(50)
TILT_MAX == Deg(130)
PAN_CENTER == Deg(90)
TILT_CENTER == Deg(90)
TILT_DIR == 0 - 1
SCAN_RANGE_PAN == Deg(40)
SCAN_RANGE_TILT == Deg(30)
SCAN_STEP == Deg(1)
SCAN_WAVES == 4
CENTER_TOL_X == 8
CENTER_TOL_Y == 8
\* 0.05 degree per pixel = 1 step per pixel
GAIN_PAN == UNIT \div 20
GAIN_TILT == UNIT \div 20
\* hundredths of a second
LOST_TIMEOUT == 200
FACE_HOLD_SEC == 10
CAM_W == 300
CAM_H == 225
\* percent
FACE_CONF == 50
MIN_FACE_PIX == 225
PERSON_CLASS == 15
PERSON_CONF == 50
\* percent of the frame area
MIN_BODY_FRAC == 2
CX == CAM_W \div 2
CY == CAM_H \div 2

None == <<>>
\* a net that was not consulted in this iteration; Ran(det): it returned det
NotRun == [run |-> FALSE, out |-> <<>>]
Ran(det) == [run |-> TRUE, out |-> det]
NoAngle == 0 - 1

\* ---- Bounds ---------------------------------------------------------------
\* clock ticks the clock can advance after process start
MaxTicks == 1
\* frames one /video_feed connection of the short-lived clients reads
MaxFrames == 2

\* the request threads that run gen_frames: two stream clients
Clients == {1, 2}
\* resolution of the modelled clock: half the loss timeout
TICK == LOST_TIMEOUT \div 2
\* time.time() at process start: far more than LOST_TIMEOUT after the epoch
StartTime == 3 * TICK
MaxTime == StartTime + MaxTicks * TICK
\* how many half hold durations past a round reading the finer clock can show
MaxLate == 2

VARIABLES
  phase,          \* position of the main thread
  now,            \* the wall clock read by time.time()
  duty,           \* pca.channels[ch].duty_cycle
  ang,            \* last angle handed to set_angle per channel (NoAngle: none yet)
  pan, tilt, scan_dir, last_seen,
  last_face_time, last_face_box,
  last_conf, last_fx, last_fy, tracking_mode,
  pc,             \* position of each gen_frames generator
  best_fconf, best_box, best_conf, status,   \* locals of gen_frames
  dets_f, dets_p, \* det_f, det_p: what the two nets returned in this iteration
  acted,          \* which of "track", "scan" ran in the current iteration
  reads,          \* frames a metered stream client has read so far
  rpc, seen,      \* api_status: position, values loaded so far
  published,      \* (last_conf, tracking_mode, last_seen) at the end of iterations
  last_face_conf  \* the confidence last_face_box was detected with

globals == <<pan, tilt, scan_dir, last_seen, last_face_time, last_face_box,
             last_conf, last_fx, last_fy, tracking_mode>>
locals == <<best_fconf, best_box, best_conf, status, dets_f, dets_p, acted>>
servo == <<duty, ang>>
reader == <<rpc, seen>>
history == <<published, last_face_conf>>
vars == <<phase, now, duty, ang, pan, tilt, scan_dir, last_seen,
          last_face_time, last_face_box, last_conf, last_fx, last_fy,
          tracking_mode, pc, best_fconf, best_box, best_conf, status,
          dets_f, dets_p, acted, reads, rpc, seen, published, last_face_conf>>

\* ---- Pure helpers ---------------------------------------------------------
Max(a, b) == IF a > b THEN a ELSE b
Min(a, b) == IF a < b THEN a ELSE b
Abs(a) == IF a < 0 THEN 0 - a ELSE a
\* max(lo, min(hi, v)) as written at lines 284, 290, 310
Clamp(lo, hi, v) == Max(lo, Min(hi, v))

\* set_angle, lines 85-87: duty for an angle, 500..2400 us of a 20 ms period:
\* int((500 + c/180 * 1900) * 65535 / 20000) for c in degrees, with the
\* fraction reduced by 500 to stay within 32-bit integers
DutyOf(a) ==
  LET c == Max(0, Min(Deg(180), a))
  IN  ((180 * UNIT * 5 + c * 19) * 13107) \div (180 * UNIT * 40)

\* math.sin of (180 * num / den) degrees, scaled by amp and truncated.
\* Bhaskara's rational approximation (error below 0.2 percent of amp).
SinPi(amp, num, den) ==
  LET t == (num * 1800) \div den
      m == t % 3600
      h == IF m >= 1800 THEN m - 1800 ELSE m
      v == h * (1800 - h)
      s == (amp * 4 * v) \div (4050000 - v)
  IN  IF m >= 1800 THEN 0 - s ELSE s

\* lines 305-309: the unclamped scan tilt for a pan angle
ScanTilt(p) == TILT_CENTER + SinPi(SCAN_RANGE_TILT, SCAN_WAVES * (p - PAN_CENTER), SCAN_RANGE_PAN)

\* lines 221-224, 260-263: raw box times frame size, .astype(int)
Pix(b) == << (b[1] * CAM_W) \div 1000, (b[2] * CAM_H) \div 1000,
             (b[3] * CAM_W) \div 1000, (b[4] * CAM_H) \div 1000 >>
Area(px) == (px[3] - px[1]) * (px[4] - px[2])
\* line 277
CenterX(px) == (px[1] + px[3]) \div 2
CenterY(px) == (px[2] + px[4]) \div 2

\* lines 216-228: the face filter, a fold over the detector rows
RECURSIVE FaceBest(_, _, _)
FaceBest(det, i, best) ==
  IF i > Len(det) THEN best
  ELSE LET d == det[i]
           px == Pix(d.box)
       IN  IF d.conf < FACE_CONF THEN FaceBest(det, i + 1, best)
           ELSE IF Area(px) < MIN_FACE_PIX THEN FaceBest(det, i + 1, best)
           ELSE IF d.conf > best.conf
                THEN FaceBest(det, i + 1, [box |-> px, conf |-> d.conf])
                ELSE FaceBest(det, i + 1, best)

\* lines 255-267 without the class test of line 258
RECURSIVE BodyBestAnyClass(_, _, _)
BodyBestAnyClass(det, i, best) ==
  IF i > Len(det) THEN best
  ELSE LET d == det[i]
           px == Pix(d.box)
       IN  IF d.conf < PERSON_CONF
           THEN BodyBestAnyClass(det, i + 1, best)
           ELSE IF Area(px) * 100 < MIN_BODY_FRAC * CAM_W * CAM_H
           THEN BodyBestAnyClass(det, i + 1, best)
           ELSE IF d.conf > best.conf
                THEN BodyBestAnyClass(det, i + 1, [box |-> px, conf |-> d.conf])
                ELSE BodyBestAnyClass(det, i + 1, best)

\* lines 255-267: the body filter, starting from (best_box, best_conf)
RECURSIVE BodyBest(_, _, _)
BodyBest(det, i, best) ==
  IF i > Len(det) THEN best
  ELSE LET d == det[i]
           px == Pix(d.box)
       IN  IF d.conf < PERSON_CONF \/ d.cls # PERSON_CLASS
           THEN BodyBest(det, i + 1, best)
           ELSE IF Area(px) * 100 < MIN_BODY_FRAC * CAM_W * CAM_H
           THEN BodyBest(det, i + 1, best)
           ELSE IF d.conf > best.conf
                THEN BodyBest(det, i + 1, [box |-> px, conf |-> d.conf])
                ELSE BodyBest(det, i + 1, best)

\* ---- Detector outputs the environment can produce -------------------------
Det(c, k, b) == [conf |-> c, cls |-> k, box |-> b]
\* bottom-right box, 20 x 25 pixels, centre (290, 212): err_x = 140, err_y = 100
BoxBR == <<934, 889, 1000, 1000>>
\* the whole frame, centre (150, 112): inside both dead zones
BoxFull == <<0, 0, 1000, 1000>>
\* 9 x 9 pixels: below MIN_FACE_PIX
BoxTiny == <<500, 500, 530, 540>>

\* 20 x 30 pixels, centre (160, 120): err_x = 10, err_y = 8
Box160 == <<500, 467, 567, 600>>
\* 16 x 25 pixels, centre (158, 212): err_x = 8, err_y = 100
BoxLow == <<500, 889, 555, 1000>>

\* a long session: a face far off centre, a body that fills the frame, or nothing
FacesFar ==
  { <<>>,
    <<Det(90, 0, BoxBR)>>,
    <<Det(30, 0, BoxBR), Det(90, 0, BoxTiny)>> }
BodiesFar ==
  { <<>>,
    <<Det(90, 7, BoxFull), Det(40, PERSON_CLASS, BoxFull), Det(90, PERSON_CLASS, BoxBR)>>,
    <<Det(90, PERSON_CLASS, BoxFull)>> }

\* ---- Initial state --------------------------------------------------------
\* Module-level assignments (lines 91, 178-187); the servo driver powers up
\* with both channels off (duty 0) and no angle commanded yet.
InitGlobals ==
  /\ pan = PAN_CENTER /\ tilt = TILT_CENTER
  /\ scan_dir = 1 /\ last_seen = 0
  /\ last_face_time = 0 /\ last_face_box = None
  /\ last_conf = 0 /\ last_fx = CX /\ last_fy = CY
  /\ tracking_mode = "none"

InitThreads ==
  /\ pc = [c \in Clients |-> "idle"]
  /\ best_fconf = [c \in Clients |-> 0]
  /\ best_box = [c \in Clients |-> None]
  /\ best_conf = [c \in Clients |-> 0]
  /\ status = [c \in Clients |-> "none"]
  /\ dets_f = [c \in Clients |-> NotRun]
  /\ dets_p = [c \in Clients |-> NotRun]
  /\ acted = [c \in Clients |-> {}]
  /\ reads = [c \in Clients |-> 0]
  /\ rpc = "idle" /\ seen = <<>>

Init ==
  /\ phase = "boot"
  /\ now = StartTime
  /\ duty = [ch \in {PAN_CH, TILT_CH} |-> 0]
  /\ ang = [ch \in {PAN_CH, TILT_CH} |-> NoAngle]
  /\ InitGlobals
  /\ InitThreads
  /\ published = {<<0, "none", 0>>}
  /\ last_face_conf = 0

\* ---- set_angle (lines 83-88) ----------------------------------------------
set_angle(ch, a) ==
  /\ ang' = [ang EXCEPT ![ch] = a]
  /\ duty' = [duty EXCEPT ![ch] = DutyOf(a)]

\* ---- Main thread ------------------------------------------------------------
\* lines 78-92: servo setup, centre the pan servo
CentrePan ==
  /\ phase = "boot"
  /\ set_angle(PAN_CH, pan)
  /\ phase' = "centre_tilt"
  /\ UNCHANGED <<now, globals, pc, locals, reads, reader, history>>

\* lines 93-105: centre the tilt servo, start the camera
CentreTilt ==
  /\ phase = "centre_tilt"
  /\ set_angle(TILT_CH, tilt)
  /\ phase' = "models"
  /\ UNCHANGED <<now, globals, pc, locals, reads, reader, history>>

\* lines 111-124, 405-412: the model files exist, the nets load, app.run serves
LoadModels ==
  /\ phase = "models"
  /\ phase' = "serving"
  /\ UNCHANGED <<now, servo, globals, pc, locals, reads, reader, history>>

\* lines 111-113: a model file is missing, FileNotFoundError ends the process
\* (module level, outside the try/finally of lines 406-419)
MissingModel ==
  /\ phase = "models"
  /\ phase' = "aborted"
  /\ UNCHANGED <<now, servo, globals, pc, locals, reads, reader, history>>

\* lines 406-413: app.run ends (Ctrl-C), the finally block is entered
Interrupt ==
  /\ phase = "serving"
  /\ phase' = "finally"
  /\ UNCHANGED <<now, servo, globals, pc, locals, reads, reader, history>>

\* lines 415-416, first round of the loop: release the pan channel
ReleasePan ==
  /\ phase = "finally"
  /\ duty' = [duty EXCEPT ![PAN_CH] = 0]
  /\ phase' = "finally_tilt"
  /\ UNCHANGED <<now, ang, globals, pc, locals, reads, reader, history>>

\* lines 415-416, second round: release the tilt channel
ReleaseTilt ==
  /\ phase = "finally_tilt"
  /\ duty' = [duty EXCEPT ![TILT_CH] = 0]
  /\ phase' = "released"
  /\ UNCHANGED <<now, ang, globals, pc, locals, reads, reader, history>>

\* lines 417-419: deinit, close, print; the main thread ends and the
\* interpreter exits, which ends the daemon request threads
Exit ==
  /\ phase = "released"
  /\ phase' = "exited"
  /\ UNCHANGED <<now, servo, globals, pc, locals, reads, reader, history>>

\* The request threads run from the moment app.run serves until the process
\* is gone; they are daemon threads, the finally block does not wait for them.
Alive == phase \in {"serving", "finally", "finally_tilt", "released"}

\* The clock advances (environment).
Tick ==
  /\ phase = "serving"
  /\ now + TICK <= MaxTime
  /\ now' = now + TICK
  /\ UNCHANGED <<phase, servo, globals, pc, locals, reads, reader, history>>

\* The readings of a finer clock: process start and the loss timeout later,
\* each of them up to MaxLate half hold durations late.
Times ==
  { StartTime + b + k * (FACE_HOLD_SEC \div 2) : b \in {0, LOST_TIMEOUT}, k \in 0..MaxLate }

\* The clock advances to a later reading (environment).
Elapse ==
  /\ phase = "serving"
  /\ \E t \in Times : t > now /\ now' = t
  /\ UNCHANGED <<phase, servo, globals, pc, locals, reads, reader, history>>

\* ---- gen_frames: one generator per /video_feed request --------------------
Goto(c, l) == pc' = [pc EXCEPT ![c] = l]

\* lines 395-400: a stream client connects, the server starts the generator
Connect(c) ==
  /\ phase = "serving"
  /\ pc[c] = "idle"
  /\ Goto(c, "capture")
  /\ UNCHANGED <<phase, now, servo, globals, locals, reads, reader, history>>

\* lines 198-200: a frame is captured
CaptureOk(c) ==
  /\ Alive /\ pc[c] = "capture"
  /\ Goto(c, "face")
  /\ UNCHANGED <<phase, now, servo, globals, locals, reads, reader, history>>

\* lines 199-203 with a handler that also forgets the target
CaptureFailForget(c) ==
  /\ Alive /\ pc[c] = "capture"
  /\ Goto(c, "backoff")
  /\ tracking_mode' = "none"
  /\ last_conf' = 0
  /\ UNCHANGED <<phase, now, servo, pan, tilt, scan_dir, last_seen, last_face_time,
                 last_face_box, last_fx, last_fy, locals, reads, reader, history>>

\* lines 199-203: capture_array raises, the handler prints a warning
CaptureFail(c) ==
  /\ Alive /\ pc[c] = "capture"
  /\ Goto(c, "backoff")
  /\ UNCHANGED <<phase, now, servo, globals, locals, reads, reader, history>>

\* lines 203-204: sleep(0.5) is over, continue with the next attempt
Backoff(c) ==
  /\ Alive /\ pc[c] = "backoff"
  /\ Goto(c, "capture")
  /\ UNCHANGED <<phase, now, servo, globals, locals, reads, reader, history>>

\* lines 206-232: face inference returns det_f; filter; remember the best face
FaceDetect(c, det_f) ==
  /\ Alive /\ pc[c] = "face"
  /\ LET best == FaceBest(det_f, 1, [box |-> None, conf |-> 0])
     IN  /\ best_fconf' = [best_fconf EXCEPT ![c] = best.conf]
         /\ IF best.box # None
            THEN /\ last_face_box' = best.box /\ last_face_time' = now
                 /\ last_face_conf' = best.conf
            ELSE UNCHANGED <<last_face_box, last_face_time, last_face_conf>>
  /\ dets_f' = [dets_f EXCEPT ![c] = Ran(det_f)]
  /\ Goto(c, "use_face")
  /\ UNCHANGED <<phase, now, servo, pan, tilt, scan_dir, last_seen, last_conf,
                 last_fx, last_fy, tracking_mode, best_box, best_conf, status,
                 dets_p, acted, reads, reader, published>>

\* line 214: net_face.forward() raises; nothing in gen_frames catches it, the
\* exception leaves the generator and the generator is finished
FaceRaise(c) ==
  /\ Alive /\ pc[c] = "face"
  /\ Goto(c, "dead")
  /\ UNCHANGED <<phase, now, servo, globals, locals, reads, reader, history>>

\* lines 235-242 with "<=" in place of "<": the hold window includes its end
UseFaceAtHoldEnd(c) ==
  /\ Alive /\ pc[c] = "use_face"
  /\ LET use_face == (now - last_face_time) <= FACE_HOLD_SEC /\ last_face_box # None
     IN  /\ tracking_mode' = IF use_face THEN "face" ELSE "none"
         /\ best_box' = [best_box EXCEPT ![c] = IF use_face THEN last_face_box ELSE None]
         /\ best_conf' = [best_conf EXCEPT ![c] = IF use_face THEN best_fconf[c] ELSE 0]
  /\ Goto(c, "body")
  /\ UNCHANGED <<phase, now, servo, pan, tilt, scan_dir, last_seen, last_face_time,
                 last_face_box, last_conf, last_fx, last_fy, best_fconf, status,
                 dets_f, dets_p, acted, reads, reader, history>>

\* lines 235-242: use a recently seen face if available
UseFace(c) ==
  /\ Alive /\ pc[c] = "use_face"
  /\ LET use_face == (now - last_face_time) < FACE_HOLD_SEC /\ last_face_box # None
     IN  /\ tracking_mode' = IF use_face THEN "face" ELSE "none"
         /\ best_box' = [best_box EXCEPT ![c] = IF use_face THEN last_face_box ELSE None]
         /\ best_conf' = [best_conf EXCEPT ![c] = IF use_face THEN best_fconf[c] ELSE 0]
  /\ Goto(c, "body")
  /\ UNCHANGED <<phase, now, servo, pan, tilt, scan_dir, last_seen, last_face_time,
                 last_face_box, last_conf, last_fx, last_fy, best_fconf, status,
                 dets_f, dets_p, acted, reads, reader, history>>

\* line 245: tracking_mode (the global) is not "none", the body step is skipped
BodySkip(c) ==
  /\ Alive /\ pc[c] = "body"
  /\ tracking_mode # "none"
  /\ Goto(c, "branch")
  /\ UNCHANGED <<phase, now, servo, globals, locals, reads, reader, history>>

\* lines 245-267 without lines 269-270: the mode is not set to "body"
BodyDetectNoMode(c, det_p) ==
  /\ Alive /\ pc[c] = "body"
  /\ tracking_mode = "none"
  /\ LET best == BodyBest(det_p, 1, [box |-> best_box[c], conf |-> best_conf[c]])
     IN  /\ best_box' = [best_box EXCEPT ![c] = best.box]
         /\ best_conf' = [best_conf EXCEPT ![c] = best.conf]
  /\ dets_p' = [dets_p EXCEPT ![c] = Ran(det_p)]
  /\ Goto(c, "branch")
  /\ UNCHANGED <<phase, now, servo, globals, best_fconf, status,
                 dets_f, acted, reads, reader, history>>

\* lines 245-270: body inference returns det_p; filter; mode "body" if a box
BodyDetect(c, det_p) ==
  /\ Alive /\ pc[c] = "body"
  /\ tracking_mode = "none"
  /\ LET best == BodyBest(det_p, 1, [box |-> best_box[c], conf |-> best_conf[c]])
     IN  /\ best_box' = [best_box EXCEPT ![c] = best.box]
         /\ best_conf' = [best_conf EXCEPT ![c] = best.conf]
         /\ tracking_mode' = IF best.box # None THEN "body" ELSE tracking_mode
  /\ dets_p' = [dets_p EXCEPT ![c] = Ran(det_p)]
  /\ Goto(c, "branch")
  /\ UNCHANGED <<phase, now, servo, pan, tilt, scan_dir, last_seen, last_face_time,
                 last_face_box, last_conf, last_fx, last_fy, best_fconf, status,
                 dets_f, acted, reads, reader, history>>

\* line 253: net_person.forward() raises; as for the face net
BodyRaise(c) ==
  /\ Alive /\ pc[c] = "body"
  /\ tracking_mode = "none"
  /\ Goto(c, "dead")
  /\ UNCHANGED <<phase, now, servo, globals, locals, reads, reader, history>>

\* line 277 and lines 281, 287: target centre and error of generator c
err_x(c) == CenterX(best_box[c]) - CX
err_y(c) == CenterY(best_box[c]) - CY

\* lines 281-283 with ">=" in place of ">": an error of exactly the tolerance
\* moves the pan
TrackPanAddAtTol(c) ==
  /\ Alive /\ pc[c] = "branch"
  /\ best_box[c] # None
  /\ Abs(err_x(c)) >= CENTER_TOL_X
  /\ pan' = pan - err_x(c) * GAIN_PAN
  /\ acted' = [acted EXCEPT ![c] = @ \cup {"track"}]
  /\ Goto(c, "pan_clamp")
  /\ UNCHANGED <<phase, now, servo, tilt, scan_dir, last_seen, last_face_time,
                 last_face_box, last_conf, last_fx, last_fy, tracking_mode,
                 best_fconf, best_box, best_conf, status, dets_f, dets_p, reads, reader, history>>

\* lines 272-283: a target was accepted; pan error outside the dead zone
TrackPanAdd(c) ==
  /\ Alive /\ pc[c] = "branch"
  /\ best_box[c] # None
  /\ Abs(err_x(c)) > CENTER_TOL_X
  /\ pan' = pan - err_x(c) * GAIN_PAN
  /\ acted' = [acted EXCEPT ![c] = @ \cup {"track"}]
  /\ Goto(c, "pan_clamp")
  /\ UNCHANGED <<phase, now, servo, tilt, scan_dir, last_seen, last_face_time,
                 last_face_box, last_conf, last_fx, last_fy, tracking_mode,
                 best_fconf, best_box, best_conf, status, dets_f, dets_p, reads, reader, history>>

\* lines 272-282: a target was accepted; pan error inside the dead zone
TrackPanSkip(c) ==
  /\ Alive /\ pc[c] = "branch"
  /\ best_box[c] # None
  /\ Abs(err_x(c)) <= CENTER_TOL_X
  /\ acted' = [acted EXCEPT ![c] = @ \cup {"track"}]
  /\ Goto(c, "tilt")
  /\ UNCHANGED <<phase, now, servo, globals, best_fconf, best_box, best_conf, status, dets_f, dets_p, reads, reader, history>>

\* line 284 with the lower bound forgotten: pan = min(PAN_MAX, pan)
TrackPanClampNoMin(c) ==
  /\ Alive /\ pc[c] = "pan_clamp"
  /\ pan' = Min(PAN_MAX, pan)
  /\ Goto(c, "pan_set")
  /\ UNCHANGED <<phase, now, servo, tilt, scan_dir, last_seen, last_face_time,
                 last_face_box, last_conf, last_fx, last_fy, tracking_mode,
                 locals, reads, reader, history>>

\* line 284
TrackPanClamp(c) ==
  /\ Alive /\ pc[c] = "pan_clamp"
  /\ pan' = Clamp(PAN_MIN, PAN_MAX, pan)
  /\ Goto(c, "pan_set")
  /\ UNCHANGED <<phase, now, servo, tilt, scan_dir, last_seen, last_face_time,
                 last_face_box, last_conf, last_fx, last_fy, tracking_mode,
                 locals, reads, reader, history>>

\* line 285
TrackPanSet(c) ==
  /\ Alive /\ pc[c] = "pan_set"
  /\ set_angle(PAN_CH, pan)
  /\ Goto(c, "tilt")
  /\ UNCHANGED <<phase, now, globals, locals, reads, reader, history>>

\* lines 287-289 with ">=" in place of ">": an error of exactly the tolerance
\* moves the tilt
TrackTiltAddAtTol(c) ==
  /\ Alive /\ pc[c] = "tilt"
  /\ Abs(err_y(c)) >= CENTER_TOL_Y
  /\ tilt' = tilt + TILT_DIR * err_y(c) * GAIN_TILT
  /\ Goto(c, "tilt_clamp")
  /\ UNCHANGED <<phase, now, servo, pan, scan_dir, last_seen, last_face_time,
                 last_face_box, last_conf, last_fx, last_fy, tracking_mode,
                 locals, reads, reader, history>>

\* lines 287-289: tilt error outside the dead zone
TrackTiltAdd(c) ==
  /\ Alive /\ pc[c] = "tilt"
  /\ Abs(err_y(c)) > CENTER_TOL_Y
  /\ tilt' = tilt + TILT_DIR * err_y(c) * GAIN_TILT
  /\ Goto(c, "tilt_clamp")
  /\ UNCHANGED <<phase, now, servo, pan, scan_dir, last_seen, last_face_time,
                 last_face_box, last_conf, last_fx, last_fy, tracking_mode,
                 locals, reads, reader, history>>

\* lines 287-288: tilt error inside the dead zone
TrackTiltSkip(c) ==
  /\ Alive /\ pc[c] = "tilt"
  /\ Abs(err_y(c)) <= CENTER_TOL_Y
  /\ Goto(c, "seen")
  /\ UNCHANGED <<phase, now, servo, globals, locals, reads, reader, history>>

\* line 290
TrackTiltClamp(c) ==
  /\ Alive /\ pc[c] = "tilt_clamp"
  /\ tilt' = Clamp(TILT_MIN, TILT_MAX, tilt)
  /\ Goto(c, "tilt_set")
  /\ UNCHANGED <<phase, now, servo, pan, scan_dir, last_seen, last_face_time,
                 last_face_box, last_conf, last_fx, last_fy, tracking_mode,
                 locals, reads, reader, history>>

\* line 291
TrackTiltSet(c) ==
  /\ Alive /\ pc[c] = "tilt_set"
  /\ set_angle(TILT_CH, tilt)
  /\ Goto(c, "seen")
  /\ UNCHANGED <<phase, now, globals, locals, reads, reader, history>>

\* lines 293-295 with the loss clock restarted by fresh detections only
TrackSeenFreshOnly(c) ==
  /\ Alive /\ pc[c] = "seen"
  /\ last_seen' = IF tracking_mode = "face" /\ best_fconf[c] = 0 THEN last_seen ELSE now
  /\ last_conf' = best_conf[c]
  /\ last_fx' = CenterX(best_box[c])
  /\ last_fy' = CenterY(best_box[c])
  /\ Goto(c, "status")
  /\ UNCHANGED <<phase, now, servo, pan, tilt, scan_dir, last_face_time,
                 last_face_box, tracking_mode, locals, reads, reader, history>>

\* lines 293-295
TrackSeen(c) ==
  /\ Alive /\ pc[c] = "seen"
  /\ last_seen' = now
  /\ last_conf' = best_conf[c]
  /\ last_fx' = CenterX(best_box[c])
  /\ last_fy' = CenterY(best_box[c])
  /\ Goto(c, "status")
  /\ UNCHANGED <<phase, now, servo, pan, tilt, scan_dir, last_face_time,
                 last_face_box, tracking_mode, locals, reads, reader, history>>

\* lines 296-299: no target, the loss timeout has not passed: nothing moves
NoScan(c) ==
  /\ Alive /\ pc[c] = "branch"
  /\ best_box[c] = None
  /\ ~(now - last_seen > LOST_TIMEOUT)
  /\ Goto(c, "status")
  /\ UNCHANGED <<phase, now, servo, globals, locals, reads, reader, history>>

\* lines 296-300 with "if" in place of "else": the scan check also runs when a
\* target was accepted
ScanStepNoElse(c) ==
  /\ Alive /\ pc[c] = "branch"
  /\ now - last_seen > LOST_TIMEOUT
  /\ pan' = pan + SCAN_STEP * scan_dir
  /\ acted' = [acted EXCEPT ![c] = @ \cup {"scan"}]
  /\ Goto(c, "scan_bounce")
  /\ UNCHANGED <<phase, now, servo, tilt, scan_dir, last_seen, last_face_time,
                 last_face_box, last_conf, last_fx, last_fy, tracking_mode,
                 best_fconf, best_box, best_conf, status, dets_f, dets_p, reads, reader, history>>

\* lines 296-300 with the direction forgotten: pan += SCAN_STEP
ScanStepForward(c) ==
  /\ Alive /\ pc[c] = "branch"
  /\ best_box[c] = None
  /\ now - last_seen > LOST_TIMEOUT
  /\ pan' = pan + SCAN_STEP
  /\ acted' = [acted EXCEPT ![c] = @ \cup {"scan"}]
  /\ Goto(c, "scan_bounce")
  /\ UNCHANGED <<phase, now, servo, tilt, scan_dir, last_seen, last_face_time,
                 last_face_box, last_conf, last_fx, last_fy, tracking_mode,
                 best_fconf, best_box, best_conf, status, dets_f, dets_p, reads, reader, history>>

\* lines 296-300: no target for longer than the loss timeout: step the pan
ScanStep(c) ==
  /\ Alive /\ pc[c] = "branch"
  /\ best_box[c] = None
  /\ now - last_seen > LOST_TIMEOUT
  /\ pan' = pan + SCAN_STEP * scan_dir
  /\ acted' = [acted EXCEPT ![c] = @ \cup {"scan"}]
  /\ Goto(c, "scan_bounce")
  /\ UNCHANGED <<phase, now, servo, tilt, scan_dir, last_seen, last_face_time,
                 last_face_box, last_conf, last_fx, last_fy, tracking_mode,
                 best_fconf, best_box, best_conf, status, dets_f, dets_p, reads, reader, history>>

\* lines 301-302 without line 303: the direction flips, the step is not taken back
ScanBounceNoReapply(c) ==
  /\ Alive /\ pc[c] = "scan_bounce"
  /\ IF pan > PAN_MAX \/ pan < PAN_MIN
     THEN /\ scan_dir' = scan_dir * (0 - 1)
          /\ pan' = pan
     ELSE UNCHANGED <<pan, scan_dir>>
  /\ Goto(c, "scan_tilt")
  /\ UNCHANGED <<phase, now, servo, tilt, last_seen, last_face_time,
                 last_face_box, last_conf, last_fx, last_fy, tracking_mode,
                 locals, reads, reader, history>>

\* lines 301-303: bounce at the edges
ScanBounce(c) ==
  /\ Alive /\ pc[c] = "scan_bounce"
  /\ IF pan > PAN_MAX \/ pan < PAN_MIN
     THEN /\ scan_dir' = scan_dir * (0 - 1)
          /\ pan' = pan + SCAN_STEP * scan_dir'
     ELSE UNCHANGED <<pan, scan_dir>>
  /\ Goto(c, "scan_tilt")
  /\ UNCHANGED <<phase, now, servo, tilt, last_seen, last_face_time,
                 last_face_box, last_conf, last_fx, last_fy, tracking_mode,
                 locals, reads, reader, history>>

\* lines 305-310: tilt follows a sine of the pan position, clamped
ScanTiltStep(c) ==
  /\ Alive /\ pc[c] = "scan_tilt"
  /\ tilt' = Clamp(TILT_MIN, TILT_MAX, ScanTilt(pan))
  /\ Goto(c, "scan_set_pan")
  /\ UNCHANGED <<phase, now, servo, pan, scan_dir, last_seen, last_face_time,
                 last_face_box, last_conf, last_fx, last_fy, tracking_mode,
                 locals, reads, reader, history>>

\* line 312
ScanSetPan(c) ==
  /\ Alive /\ pc[c] = "scan_set_pan"
  /\ set_angle(PAN_CH, pan)
  /\ Goto(c, "scan_set_tilt")
  /\ UNCHANGED <<phase, now, globals, locals, reads, reader, history>>

\* lines 313-314
ScanSetTilt(c) ==
  /\ Alive /\ pc[c] = "scan_set_tilt"
  /\ set_angle(TILT_CH, tilt)
  /\ Goto(c, "status")
  /\ UNCHANGED <<phase, now, globals, locals, reads, reader, history>>

\* lines 355-361: the status text of the iteration
StatusText(c) ==
  IF best_box[c] # None THEN "Tracking"
  ELSE IF now - last_seen < LOST_TIMEOUT THEN "Target lost (hold)"
  ELSE "Scanning"

\* the locals are dead at the top of the loop: every iteration assigns them
\* before it reads them
Fresh(c) ==
  /\ best_fconf' = [best_fconf EXCEPT ![c] = 0]
  /\ best_box' = [best_box EXCEPT ![c] = None]
  /\ best_conf' = [best_conf EXCEPT ![c] = 0]
  /\ status' = [status EXCEPT ![c] = "none"]
  /\ dets_f' = [dets_f EXCEPT ![c] = NotRun]
  /\ dets_p' = [dets_p EXCEPT ![c] = NotRun]
  /\ acted' = [acted EXCEPT ![c] = {}]

\* lines 316-392: overlay, status text, JPEG encoding; the iteration ends with
\* the frame handed to the server (ret) or dropped (imencode failed, continue)
Publish(c, ret) ==
  /\ Alive /\ pc[c] = "status"
  /\ published' = published \cup {<<last_conf, tracking_mode, last_seen>>}
  /\ IF ret
     THEN /\ status' = [status EXCEPT ![c] = StatusText(c)]
          /\ UNCHANGED <<best_fconf, best_box, best_conf, dets_f, dets_p, acted>>
     ELSE Fresh(c)
  /\ Goto(c, IF ret THEN "yield" ELSE "capture")
  /\ UNCHANGED <<phase, now, servo, globals, reads, reader, last_face_conf>>

\* lines 387-392, 197: the server takes the frame and resumes the generator
NextFrame(c) ==
  /\ Alive /\ pc[c] = "yield"
  /\ Fresh(c)
  /\ Goto(c, "capture")
  /\ UNCHANGED <<phase, now, servo, globals, reads, reader, history>>

\* the same for a client that reads at most MaxFrames frames
NextFrameMetered(c) ==
  /\ Alive /\ pc[c] = "yield"
  /\ reads[c] < MaxFrames
  /\ reads' = [reads EXCEPT ![c] = @ + 1]
  /\ Fresh(c)
  /\ Goto(c, "capture")
  /\ UNCHANGED <<phase, now, servo, globals, reader, history>>

\* lines 387-400: the client is gone, the server closes the generator at its
\* yield
Disconnect(c) ==
  /\ Alive /\ pc[c] = "yield"
  /\ Fresh(c)
  /\ Goto(c, "closed")
  /\ UNCHANGED <<phase, now, servo, globals, reads, reader, history>>

\* ---- api_status (lines 166-173): three loads of globals, in this order -----
StatusLoadConf ==
  /\ Alive /\ rpc = "idle"
  /\ seen' = <<last_conf>>
  /\ rpc' = "mode"
  /\ UNCHANGED <<phase, now, servo, globals, pc, locals, reads, history>>

StatusLoadMode ==
  /\ Alive /\ rpc = "mode"
  /\ seen' = Append(seen, tracking_mode)
  /\ rpc' = "seen"
  /\ UNCHANGED <<phase, now, servo, globals, pc, locals, reads, history>>

StatusLoadSeen ==
  /\ Alive /\ rpc = "seen"
  /\ seen' = Append(seen, last_seen)
  /\ rpc' = "done"
  /\ UNCHANGED <<phase, now, servo, globals, pc, locals, reads, history>>

\* ---- One gen_frames generator ---------------------------------------------
LoopStep(c, Faces, Bodies, Encodes) ==
  \/ CaptureOk(c) \/ CaptureFail(c) \/ Backoff(c)
  \/ \E det_f \in Faces : FaceDetect(c, det_f)
  \/ FaceRaise(c)
  \/ UseFace(c)
  \/ BodySkip(c)
  \/ \E det_p \in Bodies : BodyDetect(c, det_p)
  \/ BodyRaise(c)
  \/ TrackPanAdd(c) \/ TrackPanSkip(c) \/ TrackPanClamp(c) \/ TrackPanSet(c)
  \/ TrackTiltAdd(c) \/ TrackTiltSkip(c) \/ TrackTiltClamp(c) \/ TrackTiltSet(c)
  \/ TrackSeen(c)
  \/ NoScan(c) \/ ScanStep(c) \/ ScanBounce(c) \/ ScanTiltStep(c)
  \/ ScanSetPan(c) \/ ScanSetTilt(c)
  \/ \E ret \in Encodes : Publish(c, ret)

\* ---- Specification: one stream client that keeps reading ------------------
\* The clock is read as StartTime throughout: a target once seen is not lost
\* again and a face once seen stays held (SpecServe has the clock advance).
Next ==
  \/ CentrePan \/ CentreTilt \/ LoadModels \/ MissingModel
  \/ Connect(1)
  \/ LoopStep(1, FacesFar, BodiesFar, BOOLEAN)
  \/ NextFrame(1)
  \/ Disconnect(1)

Spec == Init /\ [][Next]_vars

\* the request thread of the stream client runs whenever it can take a step
FairSpec == Spec /\ WF_vars(LoopStep(1, FacesFar, BodiesFar, BOOLEAN))

\* ---- Specification: two stream clients, a status client, shutdown ---------
\* The process is serving; an earlier stream client watched the scan sweep
\* reach PAN_MIN and left (Spec reaches that state: AfterSweep).
SweptGlobals ==
  /\ pan = PAN_MIN /\ tilt = Clamp(TILT_MIN, TILT_MAX, ScanTilt(PAN_MIN))
  /\ scan_dir = 0 - 1 /\ last_seen = 0
  /\ last_face_time = 0 /\ last_face_box = None
  /\ last_conf = 0 /\ last_fx = CX /\ last_fy = CY
  /\ tracking_mode = "none"

InitSwept ==
  /\ phase = "serving"
  /\ now = StartTime
  /\ SweptGlobals
  /\ ang = [ch \in {PAN_CH, TILT_CH} |-> IF ch = PAN_CH THEN pan ELSE tilt]
  /\ duty = [ch \in {PAN_CH, TILT_CH} |-> DutyOf(ang[ch])]
  /\ InitThreads
  /\ published = {<<0, "none", 0>>}
  /\ last_face_conf = 0


\* faces and bodies the two clients' loops see
FacesNear == { <<>>, <<Det(90, 0, BoxBR)>> }
BodiesNear == { <<>>, <<Det(90, PERSON_CLASS, BoxFull)>> }

NextConc ==
  \/ \E c \in Clients :
       \/ Connect(c)
       \/ LoopStep(c, FacesNear, BodiesNear, {TRUE})
       \/ NextFrameMetered(c)
       \/ Disconnect(c)

SpecConc == InitSwept /\ [][NextConc]_vars

\* ---- Specification: one stream client, a short session, many scenes ------
\* The clock is read as StartTime throughout, as in Spec.
\* faces: none; the scenario face at (160, 120); the same below FACE_CONF; one
\* in the pan dead zone only; four candidates of which two fail a filter and
\* the third is the best
FacesScene ==
  { <<>>,
    <<Det(90, 0, Box160)>>,
    <<Det(30, 0, Box160)>>,
    <<Det(80, 0, BoxLow)>>,
    <<Det(60, 0, BoxLow), Det(95, 0, BoxTiny), Det(70, 0, BoxBR), Det(49, 0, Box160)>> }
\* the upper half of the frame
BoxTop == <<0, 0, 1000, 500>>
\* bodies: none; a person filling the frame; five candidates of which three
\* fail a filter (class, confidence, area) and the last is the best
BodiesScene ==
  { <<>>,
    <<Det(90, PERSON_CLASS, BoxFull)>>,
    <<Det(95, 7, BoxFull), Det(60, PERSON_CLASS, BoxFull), Det(49, PERSON_CLASS, BoxFull),
      Det(99, PERSON_CLASS, BoxBR), Det(80, PERSON_CLASS, BoxTop)>> }

NextScene ==
  \/ CentrePan \/ CentreTilt \/ LoadModels \/ MissingModel
  \/ Connect(1)
  \/ LoopStep(1, FacesScene, BodiesScene, {TRUE})
  \/ NextFrameMetered(1)
  \/ Disconnect(1)

SpecScene == Init /\ [][NextScene]_vars

\* ---- Specification: one stream client, a short session, the finer clock ----
\* faces: none, the scenario face, the same below FACE_CONF; bodies: none, a
\* person in the upper half of the frame
FacesTimed == { <<>>, <<Det(90, 0, Box160)>>, <<Det(30, 0, Box160)>> }
BodiesTimed == { <<>>, <<Det(90, PERSON_CLASS, BoxTop)>> }

NextTimed ==
  \/ CentrePan \/ CentreTilt \/ LoadModels \/ MissingModel
  \/ Elapse
  \/ Connect(1)
  \/ LoopStep(1, FacesTimed, BodiesTimed, {TRUE})
  \/ NextFrameMetered(1)
  \/ Disconnect(1)

SpecTimed == Init /\ [][NextTimed]_vars

\* ---- Specification: the whole life of the process with one stream client
\* and one status client ----------------------------------------------------
NextServe ==
  \/ CentrePan \/ CentreTilt \/ LoadModels \/ MissingModel
  \/ Interrupt \/ ReleasePan \/ ReleaseTilt \/ Exit
  \/ Tick
  \/ StatusLoadConf \/ StatusLoadMode \/ StatusLoadSeen
  \/ Connect(1)
  \/ LoopStep(1, FacesNear, BodiesNear, {TRUE})
  \/ NextFrameMetered(1)
  \/ Disconnect(1)

SpecServe == Init /\ [][NextServe]_vars

\* ---- Fairness: runnable threads run; clients and signals are free ---------
FairServe ==
  /\ SpecServe
  /\ WF_vars(CentrePan \/ CentreTilt \/ LoadModels \/ MissingModel)
  /\ WF_vars(ReleasePan \/ ReleaseTilt \/ Exit)
  /\ WF_vars(LoopStep(1, FacesNear, BodiesNear, {TRUE}))
  /\ WF_vars(StatusLoadMode \/ StatusLoadSeen)

\* ---- Properties -----------------------------------------------------------
InRange(ch, a) ==
  IF ch = PAN_CH THEN PAN_MIN <= a /\ a <= PAN_MAX
                 ELSE TILT_MIN <= a /\ a <= TILT_MAX
\* an iteration of generator c is in progress
InIteration(c) == pc[c] \notin {"idle", "yield", "closed", "dead"}
\* generator c is between iterations
IterationOver(c) == pc[c] \in {"status", "yield", "capture", "closed"}

\* Spec reaches the initial state of SpecConc
AfterSweep ==
  /\ phase = "serving" /\ pc[1] = "closed"
  /\ SweptGlobals
  /\ ang[PAN_CH] = pan /\ ang[TILT_CH] = tilt
  /\ duty[PAN_CH] = DutyOf(pan) /\ duty[TILT_CH] = DutyOf(tilt)
  /\ published = {<<0, "none", 0>>}

\* C1: with a single gen_frames loop, every angle handed to set_angle is
\* within the mechanical bounds of its axis, and pan and tilt are within
\* their bounds whenever an iteration is over.
C1_PoseWithinBounds ==
  /\ \A ch \in {PAN_CH, TILT_CH} : ang[ch] # NoAngle => InRange(ch, ang[ch])
  /\ IterationOver(1) => InRange(PAN_CH, pan) /\ InRange(TILT_CH, tilt)

\* the tracking branch has driven both axes to their lower bounds after the
\* scan had bounced at PAN_MAX
C1_Witness ==
  /\ pc[1] = "yield" /\ "track" \in acted[1]
  /\ pan = PAN_MIN /\ tilt = TILT_MIN
  /\ ang[PAN_CH] = PAN_MIN /\ ang[TILT_CH] = TILT_MIN
  /\ scan_dir = 0 - 1

\* C2: at most one loop iteration is in progress at any time.
C2_OneIterationAtATime ==
  Cardinality({c \in Clients : InIteration(c)}) <= 1

\* C3: with two loops running concurrently, every angle handed to set_angle
\* is within the mechanical bounds of its axis.
C3_CommandsWithinBounds ==
  \A ch \in {PAN_CH, TILT_CH} : ang[ch] # NoAngle => InRange(ch, ang[ch])

\* C4: the (last_conf, tracking_mode, last_seen) triple a status request
\* returns is one that was published at the end of an iteration (or the
\* initial one).
C4_StatusSeesPublished ==
  rpc = "done" => seen \in published

\* C5: when the process ends in the startup FileNotFoundError, no set_angle
\* call and no duty-cycle write has happened.
C5_AbortBeforeActuation ==
  phase = "aborted" =>
    \A ch \in {PAN_CH, TILT_CH} : ang[ch] = NoAngle /\ duty[ch] = 0

\* C6: a detector inference call that raises does not end the loop: no
\* generator is ever finished by an exception.
C6_InferenceFailureKeepsLoop ==
  \A c \in Clients : pc[c] # "dead"

\* C7: once the process has terminated, on either path, both servo channels
\* are released (duty 0).
C7_ReleasedAtTermination ==
  phase \in {"exited", "aborted"} =>
    \A ch \in {PAN_CH, TILT_CH} : duty[ch] = 0

\* C8: a failed capture changes none of the loop's globals, commands no
\* servo, and is followed by another capture attempt.
C8_CaptureFailureIsHarmless ==
  [][ /\ (pc[1] = "capture" /\ pc'[1] = "backoff") => UNCHANGED <<globals, servo>>
      /\ pc[1] = "backoff" =>
           UNCHANGED <<globals, servo>> /\ pc'[1] \in {"backoff", "capture"} ]_vars

\* a capture failed while a face was being tracked away from the centre
C8_Witness ==
  /\ pc[1] = "backoff"
  /\ tracking_mode = "face" /\ last_conf > 0 /\ last_seen > 0
  /\ pan # PAN_CENTER

\* C9: while the process serves, loop iterations keep being executed also
\* when no stream client is connected, the only client has left, or the
\* client does not take the frame it is offered.
C9_LoopRunsWithoutClients ==
  []((phase = "serving" /\ pc[1] \in {"idle", "closed", "yield"})
       => <>(phase # "serving" \/ InIteration(1)))

\* C10: no iteration runs both the tracking branch and the scan branch, and an
\* iteration that accepted a target takes no scan step.
C10_TrackXorScan ==
  \A c \in Clients :
    /\ acted[c] # {"track", "scan"}
    /\ (pc[c] \notin {"face", "use_face", "body"} /\ best_box[c] # None)
         => "scan" \notin acted[c]

\* a target is being tracked although the loss timeout had passed
C10_Witness ==
  /\ pc[1] = "seen" /\ acted[1] = {"track"}
  /\ now - last_seen > LOST_TIMEOUT

\* the pan the scan step in progress started from (pan before line 300)
ScanFrom == pan - SCAN_STEP * scan_dir

\* C11 as stated: a scan step taken at pan = PAN_MAX with scan_dir = +1 flips
\* scan_dir to -1 and leaves pan = PAN_MAX - SCAN_STEP; at pan = PAN_MIN with
\* scan_dir = -1 it flips scan_dir to +1 and leaves pan = PAN_MIN + SCAN_STEP.
C11_BounceStepsBack ==
  [][ (pc[1] = "scan_bounce" /\ pc'[1] = "scan_tilt") =>
        /\ (ScanFrom = PAN_MAX /\ scan_dir = 1) =>
             (scan_dir' = 0 - 1 /\ pan' = PAN_MAX - SCAN_STEP)
        /\ (ScanFrom = PAN_MIN /\ scan_dir = 0 - 1) =>
             (scan_dir' = 1 /\ pan' = PAN_MIN + SCAN_STEP) ]_vars

\* C11 amended: a scan step taken at pan = PAN_MAX with scan_dir = +1 flips
\* scan_dir to -1 and leaves pan = PAN_MAX (the step out of the range is taken
\* back, no further step is made); at pan = PAN_MIN with scan_dir = -1 it
\* flips scan_dir to +1 and leaves pan = PAN_MIN.
C11_BounceStaysAtBound ==
  [][ (pc[1] = "scan_bounce" /\ pc'[1] = "scan_tilt") =>
        /\ (ScanFrom = PAN_MAX /\ scan_dir = 1) =>
             (scan_dir' = 0 - 1 /\ pan' = PAN_MAX)
        /\ (ScanFrom = PAN_MIN /\ scan_dir = 0 - 1) =>
             (scan_dir' = 1 /\ pan' = PAN_MIN) ]_vars

\* the scan has just bounced at PAN_MAX: the pan commanded last was PAN_MAX,
\* the direction is now -1
C11_Witness ==
  /\ pc[1] = "scan_tilt" /\ acted[1] = {"scan"}
  /\ ang[PAN_CH] = PAN_MAX /\ pan = PAN_MAX /\ scan_dir = 0 - 1

\* positions of a generator before the track-or-scan decision (lines 197-272)
Detecting == {"capture", "backoff", "face", "use_face", "body"}
\* positions from the decision to the end of the iteration (lines 275-385)
Deciding == {"branch", "pan_clamp", "pan_set", "tilt", "tilt_clamp", "tilt_set",
             "seen", "status"}
\* the accepted target of generator c is inside the dead zone of an axis
DeadX(c) == best_box[c] # None /\ Abs(err_x(c)) <= CENTER_TOL_X
DeadY(c) == best_box[c] # None /\ Abs(err_y(c)) <= CENTER_TOL_Y

\* C12: in an iteration with an accepted target, if |fx - CX| <= CENTER_TOL_X
\* no step of the iteration changes pan or commands the pan servo, and if
\* |fy - CY| <= CENTER_TOL_Y no step changes tilt or commands the tilt servo,
\* whatever the other axis does.
C12_DeadZone ==
  [][ /\ pc[1] \in Detecting => UNCHANGED <<pan, tilt, servo>>
      /\ (pc[1] \in Deciding /\ DeadX(1)) =>
           /\ pan' = pan
           /\ ang'[PAN_CH] = ang[PAN_CH] /\ duty'[PAN_CH] = duty[PAN_CH]
      /\ (pc[1] \in Deciding /\ DeadY(1)) =>
           /\ tilt' = tilt
           /\ ang'[TILT_CH] = ang[TILT_CH] /\ duty'[TILT_CH] = duty[TILT_CH] ]_vars

\* the first iteration accepted a face with err_x = 8 and err_y = 100: the
\* pan is where startup left it, the tilt has moved and was commanded
C12_Witness ==
  /\ pc[1] = "yield" /\ best_box[1] = Pix(BoxLow)
  /\ pan = PAN_CENTER /\ ang[PAN_CH] = PAN_CENTER
  /\ tilt = TILT_CENTER + TILT_DIR * 100 * GAIN_TILT /\ ang[TILT_CH] = tilt

\* C13: in an iteration in which no face passes the filters, evaluated (line
\* 236) before last_face_time + FACE_HOLD_SEC, the mode is "face" and the
\* target is the remembered face; the mode stays "face" to the end of the
\* iteration, the body detector is not run, and the centre stored is the
\* centre of the remembered face.  Evaluated at or after last_face_time +
\* FACE_HOLD_SEC, the mode is not "face", and it does not become "face" later
\* in the iteration.
C13_FaceHold ==
  [][ /\ (pc[1] = "use_face" /\ pc'[1] = "body" /\ best_fconf[1] = 0) =>
           IF last_face_box # None /\ now - last_face_time < FACE_HOLD_SEC
           THEN tracking_mode' = "face" /\ best_box'[1] = last_face_box
           ELSE tracking_mode' # "face" /\ best_box'[1] = None
      /\ (pc[1] \in {"body"} \cup Deciding /\ tracking_mode = "face") =>
           /\ tracking_mode' = "face" /\ best_box'[1] = best_box[1]
           /\ ~dets_p'[1].run
           /\ last_face_box' = last_face_box
      /\ (pc[1] = "seen" /\ pc'[1] = "status" /\ tracking_mode = "face") =>
           /\ last_fx' = CenterX(last_face_box)
           /\ last_fy' = CenterY(last_face_box)
      /\ (pc[1] \in {"body"} \cup Deciding /\ tracking_mode # "face") =>
           tracking_mode' # "face" ]_vars

\* a hold iteration is over, run later than the face was accepted and inside
\* the hold window: no face passed the filters in it, the mode is "face" and
\* the centre is that of the face accepted before, (160, 120)
C13_Witness ==
  /\ pc[1] = "yield" /\ dets_f[1].run /\ best_fconf[1] = 0
  /\ last_face_time < last_seen /\ last_seen - last_face_time < FACE_HOLD_SEC
  /\ tracking_mode = "face" /\ status[1] = "Tracking"
  /\ last_fx = 160 /\ last_fy = 120
  /\ ~dets_p[1].run

\* the hold window is over: an iteration without a fresh face, evaluated
\* FACE_HOLD_SEC after the face was accepted, is past the face step
C13_Expired ==
  /\ pc[1] = "body" /\ best_fconf[1] = 0 /\ last_face_box # None
  /\ now - last_face_time = FACE_HOLD_SEC
  /\ tracking_mode = "none"

\* C14: whenever an iteration ends in mode "face", the confidence it stored in
\* last_conf is the confidence the remembered face was detected with, also
\* when no face was detected in the iteration's own frame.
C14_FaceConfidenceKept ==
  (pc[1] \in {"status", "yield"} /\ tracking_mode = "face") =>
    last_conf = last_face_conf

\* C15: the status label of a finished iteration matches what the iteration
\* did: "Tracking" exactly when a target was accepted, "Scanning" exactly when
\* the scan step ran in it, "Target lost (hold)" exactly when no target was
\* accepted and nothing was actuated.
C15_StatusMatchesAction ==
  pc[1] = "yield" =>
    /\ status[1] = "Tracking" <=> best_box[1] # None
    /\ status[1] = "Scanning" <=> "scan" \in acted[1]
    /\ status[1] = "Target lost (hold)" <=> (best_box[1] = None /\ acted[1] = {})

\* the iteration of generator c has accepted the face of scenario 1: centre
\* (160, 120), confidence 0.9
Scenario1(c) ==
  /\ pc[c] \in Deciding /\ tracking_mode = "face"
  /\ best_box[c] = Pix(Box160) /\ best_conf[c] = 90
\* the pan the tracking step in progress started from (pan before line 283)
TrackFrom(c) == pan + err_x(c) * GAIN_PAN

\* C16 as stated: an iteration that accepts the face of scenario 1 with pan
\* and tilt strictly inside their bounds strictly decreases pan and strictly
\* moves tilt in the tilt direction (an increase for tilt direction +1, a
\* decrease for -1).
C16_Scenario1 ==
  [][ (Scenario1(1) /\ pc'[1] # pc[1]) =>
        /\ (pc[1] = "branch" /\ PAN_MIN < pan /\ pan < PAN_MAX) =>
             (pc'[1] = "pan_clamp" /\ pan' < pan)
        /\ (pc[1] = "pan_clamp" /\ PAN_MIN < TrackFrom(1) /\ TrackFrom(1) < PAN_MAX) =>
             pan' < TrackFrom(1)
        /\ (pc[1] = "tilt" /\ TILT_MIN < tilt /\ tilt < TILT_MAX) =>
             /\ pc'[1] = "tilt_clamp"
             /\ TILT_DIR = 1 => tilt' > tilt
             /\ TILT_DIR = 0 - 1 => tilt' < tilt ]_vars

\* C16 amended: such an iteration strictly decreases pan and leaves tilt
\* unchanged and uncommanded: err_y = 8 is not above CENTER_TOL_Y.
C16_Scenario1PanOnly ==
  [][ (Scenario1(1) /\ pc'[1] # pc[1]) =>
        /\ (pc[1] = "branch" /\ PAN_MIN < pan /\ pan < PAN_MAX) =>
             (pc'[1] = "pan_clamp" /\ pan' < pan)
        /\ (pc[1] = "pan_clamp" /\ PAN_MIN < TrackFrom(1) /\ TrackFrom(1) < PAN_MAX) =>
             pan' < TrackFrom(1)
        /\ pc[1] \in Deciding \ {"branch", "pan_clamp"} => pan' = pan
        /\ tilt' = tilt /\ ang'[TILT_CH] = ang[TILT_CH] ]_vars

\* the first iteration accepted the face of scenario 1: the pan went down by
\* err_x * GAIN_PAN and was commanded, the tilt is where startup left it
C16_Witness ==
  /\ pc[1] = "yield" /\ best_box[1] = Pix(Box160) /\ best_conf[1] = 90
  /\ tracking_mode = "face"
  /\ pan = PAN_CENTER - 10 * GAIN_PAN /\ ang[PAN_CH] = pan
  /\ tilt = TILT_CENTER /\ ang[TILT_CH] = TILT_CENTER

\* the detector outputs of scenario 3: a face of confidence 0.3, a person of
\* confidence 0.9 and sufficient area
FaceWeak == <<Det(30, 0, Box160)>>
PersonSure == <<Det(90, PERSON_CLASS, BoxTop)>>

\* C17 as stated: an iteration whose face net returns the face of confidence
\* 0.3 and whose body net, whenever it is consulted, returns the person of
\* confidence 0.9 ends in mode "body", whatever earlier iterations left.
C17_Scenario3 ==
  ( /\ pc[1] \in Deciding \cup {"yield"}
    /\ dets_f[1] = Ran(FaceWeak)
    /\ dets_p[1].run => dets_p[1] = Ran(PersonSure) )
  => tracking_mode = "body"

\* C17 amended: in such an iteration the weak face is rejected; if a face
\* remembered from an earlier iteration is less than FACE_HOLD_SEC old when
\* line 236 is evaluated, the mode is "face" and the body net is not
\* consulted; otherwise the body net is consulted and the mode is "body".
C17_Scenario3UnlessHeld ==
  [][ dets_f[1] = Ran(FaceWeak) =>
        /\ best_fconf[1] = 0
        /\ (pc[1] = "use_face" /\ pc'[1] = "body") =>
             (tracking_mode' = "face" <=>
                (last_face_box # None /\ now - last_face_time < FACE_HOLD_SEC))
        /\ (pc[1] = "body" /\ pc'[1] = "branch") =>
             IF tracking_mode = "face"
             THEN tracking_mode' = "face" /\ ~dets_p'[1].run
             ELSE dets_p'[1].run /\ (dets_p'[1] = Ran(PersonSure) => tracking_mode' = "body")
        /\ pc[1] \in Deciding => tracking_mode' = tracking_mode ]_vars

\* scenario 3 after the hold window of an earlier face has passed: the weak
\* face was rejected, the body net returned the person, the mode is "body"
C17_Witness ==
  /\ pc[1] = "yield"
  /\ dets_f[1] = Ran(FaceWeak) /\ dets_p[1] = Ran(PersonSure)
  /\ last_face_box # None /\ now - last_face_time >= FACE_HOLD_SEC
  /\ tracking_mode = "body" /\ best_conf[1] = 90

\* a face output, a body output passes the filters (lines 219, 225, 258, 264)
FacePass(d) == d.conf >= FACE_CONF /\ Area(Pix(d.box)) >= MIN_FACE_PIX
BodyPass(d) ==
  /\ d.conf >= PERSON_CONF /\ d.cls = PERSON_CLASS
  /\ Area(Pix(d.box)) * 100 >= MIN_BODY_FRAC * CAM_W * CAM_H
\* the outputs of a net that pass its filters
FacesPassing(out) == {i \in 1..Len(out) : FacePass(out[i])}
BodiesPassing(out) == {i \in 1..Len(out) : BodyPass(out[i])}
\* (box, conf) is one of the outputs numbered in ok, of the highest confidence
BestOf(out, ok, box, conf) ==
  \E i \in ok : /\ box = Pix(out[i].box) /\ conf = out[i].conf
                 /\ \A j \in ok : out[j].conf <= conf

\* C18: the remembered face is never a rejected face output, and once the
\* face net has run in an iteration the remembered face is the passing output
\* of the highest confidence (when none passes, the iteration has no face);
\* once the body net has run, the chosen box is the passing body output of
\* the highest confidence, and no box when none passes.
C18_FiltersSelectBest ==
  /\ last_face_box # None =>
       Area(last_face_box) >= MIN_FACE_PIX /\ last_face_conf >= FACE_CONF
  /\ dets_f[1].run =>
       LET ok == FacesPassing(dets_f[1].out)
       IN  IF ok = {} THEN best_fconf[1] = 0
           ELSE /\ BestOf(dets_f[1].out, ok, last_face_box, best_fconf[1])
                /\ last_face_conf = best_fconf[1]
  /\ dets_p[1].run =>
       LET ok == BodiesPassing(dets_p[1].out)
       IN  IF ok = {} THEN best_box[1] = None /\ tracking_mode = "none"
           ELSE /\ BestOf(dets_p[1].out, ok, best_box[1], best_conf[1])
                /\ tracking_mode = "body"

\* an iteration is over in which the only face output failed the confidence
\* filter and was not remembered, and of five body outputs the last one was
\* chosen: three fail a filter, one passes with a lower confidence
C18_Witness ==
  /\ pc[1] = "yield"
  /\ dets_f[1] = Ran(FaceWeak) /\ best_fconf[1] = 0 /\ last_face_box = None
  /\ dets_p[1].run /\ Len(dets_p[1].out) = 5
  /\ best_box[1] = Pix(BoxTop) /\ best_conf[1] = 80 /\ tracking_mode = "body"

\* an iteration is over in which the third of four face outputs was
\* remembered: two fail a filter, one passes with a lower confidence
C18_FaceChosen ==
  /\ pc[1] = "yield"
  /\ dets_f[1].run /\ Len(dets_f[1].out) = 4
  /\ last_face_box = Pix(BoxBR) /\ best_fconf[1] = 70 /\ tracking_mode = "face"

\* more than LOST_TIMEOUT has passed since a target was accepted
Lost == now - last_seen > LOST_TIMEOUT

\* C19, the scan steps: while the target is lost, every iteration without a
\* target takes a scan step; the step changes pan by exactly SCAN_STEP in the
\* direction scan_dir and is commanded; scan_dir changes only when the step
\* left [PAN_MIN, PAN_MAX], and then it reverses; nothing else in an
\* iteration without a target changes pan or scan_dir.
C19_ScanSteps ==
  [][ /\ (pc[1] = "branch" /\ best_box[1] = None /\ Lost /\ pc'[1] # pc[1]) =>
           pc'[1] = "scan_bounce"
      /\ (pc[1] = "branch" /\ pc'[1] = "scan_bounce") =>
           pan' = pan + SCAN_STEP * scan_dir /\ scan_dir' = scan_dir
      /\ (pc[1] = "scan_bounce" /\ pc'[1] = "scan_tilt") =>
           IF PAN_MIN <= pan /\ pan <= PAN_MAX
           THEN UNCHANGED <<pan, scan_dir>>
           ELSE scan_dir' = 0 - scan_dir /\ InRange(PAN_CH, pan')
      /\ (pc[1] = "scan_set_pan" /\ pc'[1] # pc[1]) => ang'[PAN_CH] = pan
      /\ pc[1] \in Detecting \cup {"scan_tilt", "scan_set_pan", "scan_set_tilt", "status"} =>
           UNCHANGED <<pan, scan_dir>> ]_vars

\* C19, the scan starts: an iteration that runs while the target is lost
\* takes a scan step, unless it accepts a target, fails to capture a frame
\* or is ended by an exception.
C19_ScanStarts ==
  [] ((InIteration(1) /\ Lost) =>
        <> \/ "scan" \in acted[1]
           \/ best_box[1] # None
           \/ pc[1] \in {"backoff", "dead"})

\* C19: if no target is accepted for longer than LOST_TIMEOUT and frames keep
\* being acquired, the loop executes scan steps, each changing pan by exactly
\* SCAN_STEP in the direction scan_dir until a bound is reached, for as long
\* as no target is accepted.
C19_Scenario2 == C19_ScanSteps /\ C19_ScanStarts

\* no target was ever accepted; the sweep has bounced at PAN_MAX and is three
\* steps into its way back
C19_Witness ==
  /\ pc[1] = "yield" /\ acted[1] = {"scan"} /\ status[1] = "Scanning"
  /\ last_seen = 0 /\ scan_dir = 0 - 1
  /\ pan = PAN_MAX - 3 * SCAN_STEP /\ ang[PAN_CH] = pan

\* the iteration of generator c tracks a held face: no face passed the
\* filters in it, the remembered face is the target
Held(c) == pc[c] \in Deciding /\ tracking_mode = "face" /\ best_fconf[c] = 0

\* C20: an iteration that holds a face applies the proportional correction
\* of the remembered box's error to pan and tilt and sets last_seen to the
\* current time; a scan step is only taken without a target and more than
\* LOST_TIMEOUT after last_seen; an iteration without any box leaves last_fx,
\* last_fy, last_conf and last_seen unchanged.
C20_HeldFaceIsTarget ==
  [][ LET ex == CenterX(last_face_box) - CX
          ey == CenterY(last_face_box) - CY
      IN  /\ Held(1) => best_box[1] = last_face_box
          /\ (Held(1) /\ pc[1] = "branch" /\ pc'[1] # pc[1]) =>
               pan' = IF Abs(ex) > CENTER_TOL_X THEN pan - ex * GAIN_PAN ELSE pan
          /\ (Held(1) /\ pc[1] = "pan_set" /\ pc'[1] # pc[1]) => ang'[PAN_CH] = pan
          /\ (Held(1) /\ pc[1] = "tilt" /\ pc'[1] # pc[1]) =>
               tilt' = IF Abs(ey) > CENTER_TOL_Y THEN tilt + TILT_DIR * ey * GAIN_TILT
                       ELSE tilt
          /\ (Held(1) /\ pc[1] = "seen" /\ pc'[1] # pc[1]) =>
               /\ last_seen' = now
               /\ last_fx' = CenterX(last_face_box) /\ last_fy' = CenterY(last_face_box)
          /\ (pc[1] = "branch" /\ pc'[1] = "scan_bounce") =>
               best_box[1] = None /\ now - last_seen > LOST_TIMEOUT
          /\ (pc[1] \in Detecting \/ (pc[1] \in Deciding /\ best_box[1] = None)) =>
               UNCHANGED <<last_fx, last_fy, last_conf, last_seen>> ]_vars

\* a hold iteration is over that ran later than the iteration that accepted
\* the face: the pan was corrected a second time and commanded, the loss
\* clock was restarted at the later time
C20_Witness ==
  /\ pc[1] = "yield" /\ tracking_mode = "face" /\ best_fconf[1] = 0
  /\ best_box[1] = Pix(Box160)
  /\ pan = PAN_CENTER - 2 * 10 * GAIN_PAN /\ ang[PAN_CH] = pan
  /\ last_seen > last_face_time

\* an iteration without any box is over after a target had been tracked: the
\* centre, the confidence and the loss clock of that target are still stored
C20_NoBox ==
  /\ pc[1] = "yield" /\ best_box[1] = None /\ acted[1] = {}
  /\ last_fx = 160 /\ last_fy = 120 /\ last_conf = 90 /\ last_seen > 0

====
